---- MODULE Spec2Model ----
(***************************************************************************)
(* Model of the observability bootstrap of the roll-dice service           *)
(* (src/otel.go): setupOTelSDK, the shutdown closure it returns, and the   *)
(* callers of that closure.                                                *)
(***************************************************************************)
EXTENDS Integers, Sequences, FiniteSets, TLC

\* ------------------------------------------------------------------ bounds
\* Number of calls of the returned shutdown procedure each caller may make.
MaxCalls == 3

\* Number of HTTP requests the service receives while it serves.
MaxRequests == 2

\* ------------------------------------------------------------------ errors
\* A Go error value.  nil is Nil; an error made by a library call is a leaf;
\* errors.Join builds a node wrapping the non-nil errors it was given.
Nil == [leaf |-> "nil", subs |-> <<>>]

Leaf(s) == [leaf |-> s, subs |-> <<>>]

\* errors.Join(errs...): nil values are discarded, the result is nil when every
\* value is nil, otherwise a new error wrapping the remaining ones in order.
Join(errs) ==
  LET nn == SelectSeq(errs, LAMBDA e : e # Nil)
  IN  IF nn = <<>> THEN Nil ELSE [leaf |-> "join", subs |-> nn]

\* The library errors an error value wraps, in order (what errors.Is /
\* Unwrap() []error make inspectable), whatever the nesting of the joins.
RECURSIVE Leaves(_), LeavesOfAll(_)
Leaves(e) ==
  IF e = Nil THEN <<>>
  ELSE IF e.leaf # "join" THEN <<e.leaf>>
  ELSE LeavesOfAll(e.subs)

LeavesOfAll(es) ==
  IF es = <<>> THEN <<>> ELSE Leaves(Head(es)) \o LeavesOfAll(Tail(es))

\* The registered cleanups, by the provider whose Shutdown method they are.
TP == "tracerProvider.Shutdown"
MP == "meterProvider.Shutdown"
Cleanups == {TP, MP}

\* What fn(ctx) can return for a registered cleanup: nil or the provider's
\* error.  With a deadline that has already passed the provider may report
\* the context's error or (nothing left to flush) nil.
CleanupOutcomes(fn, expired) ==
  IF expired THEN {Nil, Leaf("context deadline exceeded")}
             ELSE {Nil, Leaf(fn \o " failed")}

\* ------------------------------------------------------------------- state
Callers == {"c1", "c2"}

VARIABLES
  serviceName,     \* setupOTelSDK's argument serviceName
  serviceVersion,  \* setupOTelSDK's argument serviceVersion
  pc,              \* position of setupOTelSDK
  shutdownFuncs,   \* the captured slice of cleanups (line 23)
  err,             \* setupOTelSDK's named result err
  res,             \* the resource built by newResource, NoResource before
  exporter,        \* "none" or "built"
  otelPropagator,      \* otel.SetTextMapPropagator: "none" or "installed"
  otelTracerProvider,  \* otel.SetTracerProvider: "none" or "installed"
  otelMeterProvider,   \* otel.SetMeterProvider: "none" or "installed"
  invoked,         \* how many times each cleanup has been invoked
  logged,          \* the messages written with log.Print / log.Printf
  mergeResult,     \* what resource.Merge reported (nil before the call)
  exporterResult,  \* what otlptracehttp.New reported (nil before the call)
  pcS,             \* position of each caller inside the shutdown closure
  snapshot,        \* the slice each caller's range loop iterates over
  idx,             \* each caller's loop index
  errS,            \* the closure's local err, per caller
  ret,             \* what each caller's finished calls returned, in order
  expiredS,        \* whether the ctx of each caller's call had expired
  attempted,       \* the cleanups each caller's current call ran, with results
  calls,           \* how many calls of the closure have begun, per caller
  mainPc,          \* position of the service entrypoint
  exitCode,        \* the status the process exits with
  req,             \* each HTTP request: its handler's position and response
  rollCounter      \* the counter metric: increments per rolled value

vars == <<serviceName, serviceVersion, pc, shutdownFuncs, err, res, exporter,
          otelPropagator,
          otelTracerProvider, otelMeterProvider, invoked, logged,
          mergeResult, exporterResult, pcS, snapshot, idx, errS, ret,
          expiredS, attempted, calls, mainPc, exitCode, req, rollCounter>>

setupVars == <<serviceName, serviceVersion, pc, shutdownFuncs, err, res,
               exporter, otelPropagator,
               otelTracerProvider, otelMeterProvider, logged, mergeResult,
               exporterResult>>
callerVars == <<pcS, snapshot, idx, errS, ret, expiredS, attempted, calls>>
mainVars == <<mainPc, exitCode>>
handlerVars == <<req, rollCounter>>

\* The requests the service may receive, and the faces of the die.
Requests == 1..MaxRequests
DiceSides == 6
Faces == 1..DiceSides

\* A request that has not arrived yet.
NoRequest ==
  [pc |-> "none", method |-> "", path |-> "", roll |-> 0, status |-> 0,
   body |-> "", spans |-> 0]

\* The service identities setupOTelSDK is called with.
ServiceNames == {"rolldice", "dice"}
ServiceVersions == {"1.0", "0.1.0"}

\* A resource is its attribute set, a function from keys to values.
NoResource == [k \in {} |-> ""]

Init ==
  /\ serviceName \in ServiceNames
  /\ serviceVersion \in ServiceVersions
  /\ pc = "resource"
  /\ shutdownFuncs = <<>>
  /\ err = Nil
  /\ res = NoResource
  /\ exporter = "none"
  /\ otelPropagator = "none"
  /\ otelTracerProvider = "none"
  /\ otelMeterProvider = "none"
  /\ invoked = [f \in Cleanups |-> 0]
  /\ logged = <<>>
  /\ mergeResult = Nil
  /\ exporterResult = Nil
  /\ pcS = [c \in Callers |-> "idle"]
  /\ snapshot = [c \in Callers |-> <<>>]
  /\ idx = [c \in Callers |-> 1]
  /\ errS = [c \in Callers |-> Nil]
  /\ ret = [c \in Callers |-> <<>>]
  /\ expiredS = [c \in Callers |-> FALSE]
  /\ attempted = [c \in Callers |-> <<>>]
  /\ calls = [c \in Callers |-> 0]
  /\ mainPc = "init"
  /\ exitCode = 0
  /\ req = [r \in Requests |-> NoRequest]
  /\ rollCounter = [v \in Faces |-> 0]

\* ------------------------------------------------------------ constructors
\* resource.Default(): the attributes the SDK detects for the process.
DefaultResource ==
  [k \in {"service.name", "telemetry.sdk.language", "telemetry.sdk.name"} |->
     CASE k = "service.name" -> "unknown_service"
       [] k = "telemetry.sdk.language" -> "go"
       [] k = "telemetry.sdk.name" -> "opentelemetry"]

\* resource.NewWithAttributes(semconv.SchemaURL, ServiceName, ServiceVersion).
ServiceResource(name, version) ==
  [k \in {"service.name", "service.version"} |->
     IF k = "service.name" THEN name ELSE version]

\* resource.Merge(a, b): the union of the attributes, b's value winning.
Merge(a, b) ==
  [k \in DOMAIN a \cup DOMAIN b |-> IF k \in DOMAIN b THEN b[k] ELSE a[k]]

\* newResource: resource.Merge of the default resource with the service
\* attributes; mergeErr is what Merge reported (a schema URL conflict).
newResource(name, version, mergeErr) ==
  [val |-> IF mergeErr = Nil
             THEN Merge(DefaultResource, ServiceResource(name, version))
             ELSE NoResource,
   err |-> mergeErr]

\* Variant of newExporter that returns the error instead of panicking.
newExporterReturnsError(newErr) ==
  IF newErr # Nil
    THEN [panic |-> FALSE, val |-> "none", err |-> newErr,
          log |-> <<"Error sending traces">>]
    ELSE [panic |-> FALSE, val |-> "built", err |-> Nil, log |-> <<>>]

\* newExporter: otlptracehttp.New(ctx); on an error it logs and panics, it
\* never returns a non-nil error.
newExporter(newErr) ==
  IF newErr # Nil
    THEN [panic |-> TRUE, val |-> "none", err |-> newErr,
          log |-> <<"Error sending traces">>]
    ELSE [panic |-> FALSE, val |-> "built", err |-> Nil, log |-> <<>>]

\* newTraceProvider: trace.NewTracerProvider cannot fail; the error result is
\* always nil.
newTraceProvider(r, e) ==
  [val |-> "tracerProvider", err |-> Nil, log |-> <<"Sent to otel collector">>]

\* Variant of newMeterProvider that reports a construction error.
newMeterProviderFails(r) ==
  [val |-> "none", err |-> Leaf("meter provider construction failed")]

\* newMeterProvider: metric.NewMeterProvider cannot fail; always a nil error.
newMeterProvider(r) ==
  [val |-> "meterProvider", err |-> Nil]

\* What the library calls made by the bootstrap can report.
MergeErrors == {Nil, Leaf("resource merge failed")}
ExporterErrors == {Nil, Leaf("exporter construction failed")}

\* ------------------------------------------------- the shutdown closure
\* The results the cleanups of funcs can give, one per cleanup, in order.
CleanupResults(funcs) ==
  {r \in [1..Len(funcs) ->
            UNION {CleanupOutcomes(f, x) : f \in Cleanups, x \in BOOLEAN}] :
     \A i \in 1..Len(funcs) :
        r[i] \in CleanupOutcomes(funcs[i], TRUE)
                   \cup CleanupOutcomes(funcs[i], FALSE)}

\* The loop of the closure run to its end on results: err starts nil and is
\* joined with every cleanup's result in turn.
RECURSIVE ShutdownErr(_)
ShutdownErr(results) ==
  IF results = <<>> THEN Nil
  ELSE Join(<<ShutdownErr(SubSeq(results, 1, Len(results) - 1)),
              results[Len(results)]>>)

\* How often cleanup f occurs in funcs.
Occurrences(funcs, f) == Cardinality({i \in 1..Len(funcs) : funcs[i] = f})

\* handleErr(inErr): runs the closure (every registered cleanup, then the
\* registry is cleared) and sets err to the join of inErr and its result.
handleErr(inErr) ==
  \E results \in CleanupResults(shutdownFuncs) :
    /\ err' = Join(<<inErr, ShutdownErr(results)>>)
    /\ invoked' = [f \in Cleanups |->
                      invoked[f] + Occurrences(shutdownFuncs, f)]
    /\ shutdownFuncs' = <<>>

\* ------------------------------------------------------------ setupOTelSDK
\* Variant of lines 43-47 without the return after handleErr.
SetupResourceNoReturn ==
  /\ pc = "resource"
  /\ \E mergeErr \in MergeErrors :
       LET r == newResource(serviceName, serviceVersion, mergeErr) IN
       /\ res' = r.val
       /\ mergeResult' = mergeErr
       /\ IF r.err # Nil
            THEN handleErr(r.err)
            ELSE /\ err' = r.err
                 /\ UNCHANGED <<shutdownFuncs, invoked>>
  /\ pc' = "propagator"
  /\ UNCHANGED <<serviceName, serviceVersion, exporter, otelPropagator,
                 otelTracerProvider, otelMeterProvider, logged,
                 exporterResult, callerVars, mainVars, handlerVars>>

\* Lines 43-47: build the resource; on failure handleErr and return.
SetupResource ==
  /\ pc = "resource"
  /\ \E mergeErr \in MergeErrors :
       LET r == newResource(serviceName, serviceVersion, mergeErr) IN
       /\ res' = r.val
       /\ mergeResult' = mergeErr
       /\ IF r.err # Nil
            THEN /\ handleErr(r.err)
                 /\ pc' = "returned"
            ELSE /\ err' = r.err
                 /\ pc' = "propagator"
                 /\ UNCHANGED <<shutdownFuncs, invoked>>
  /\ UNCHANGED <<serviceName, serviceVersion, exporter, otelPropagator,
                 otelTracerProvider, otelMeterProvider, logged,
                 exporterResult, callerVars, mainVars, handlerVars>>

\* Lines 50-51: build the propagator and install it process-wide.
SetupPropagator ==
  /\ pc = "propagator"
  /\ otelPropagator' = "installed"
  /\ pc' = "exporter"
  /\ UNCHANGED <<serviceName, serviceVersion, shutdownFuncs, err, res,
                 exporter, otelTracerProvider, otelMeterProvider, invoked,
                 logged, mergeResult, exporterResult, callerVars, mainVars,
                 handlerVars>>

\* Line 53: build the exporter; its error result is discarded, and a failure
\* inside newExporter is a panic that leaves setupOTelSDK without a return.
SetupExporter ==
  /\ pc = "exporter"
  /\ \E newErr \in ExporterErrors :
       LET r == newExporter(newErr) IN
       /\ logged' = logged \o r.log
       /\ exporterResult' = newErr
       /\ IF r.panic
            THEN /\ pc' = "panicked"
                 /\ UNCHANGED exporter
            ELSE /\ pc' = "traceProvider"
                 /\ exporter' = r.val
  /\ UNCHANGED <<serviceName, serviceVersion, shutdownFuncs, err, res,
                 otelPropagator, otelTracerProvider, otelMeterProvider,
                 invoked, mergeResult, callerVars, mainVars, handlerVars>>

\* Lines 56-60: build the trace provider; on failure handleErr and return.
SetupTraceProvider ==
  /\ pc = "traceProvider"
  /\ LET r == newTraceProvider(res, exporter) IN
       /\ logged' = logged \o r.log
       /\ IF r.err # Nil
            THEN /\ handleErr(r.err)
                 /\ pc' = "returned"
            ELSE /\ err' = r.err
                 /\ pc' = "registerTP"
                 /\ UNCHANGED <<shutdownFuncs, invoked>>
  /\ UNCHANGED <<serviceName, serviceVersion, res, exporter, otelPropagator,
                 otelTracerProvider, otelMeterProvider, mergeResult,
                 exporterResult, callerVars, mainVars, handlerVars>>

\* Variant of line 61 that registers nothing.
RegisterTracerProviderSkipped ==
  /\ pc = "registerTP"
  /\ pc' = "installTP"
  /\ UNCHANGED <<serviceName, serviceVersion, shutdownFuncs, err, res,
                 exporter, otelPropagator, otelTracerProvider,
                 otelMeterProvider, invoked, logged, mergeResult,
                 exporterResult, callerVars, mainVars, handlerVars>>

\* Line 61: register the trace provider's Shutdown.
RegisterTracerProvider ==
  /\ pc = "registerTP"
  /\ shutdownFuncs' = Append(shutdownFuncs, TP)
  /\ pc' = "installTP"
  /\ UNCHANGED <<serviceName, serviceVersion, err, res, exporter,
                 otelPropagator, otelTracerProvider, otelMeterProvider,
                 invoked, logged, mergeResult, exporterResult, callerVars,
                 mainVars, handlerVars>>

\* Line 62: install the trace provider process-wide.
InstallTracerProvider ==
  /\ pc = "installTP"
  /\ otelTracerProvider' = "installed"
  /\ pc' = "meterProvider"
  /\ UNCHANGED <<serviceName, serviceVersion, shutdownFuncs, err, res,
                 exporter, otelPropagator, otelMeterProvider, invoked, logged,
                 mergeResult, exporterResult, callerVars, mainVars,
                 handlerVars>>

\* Lines 65-69: build the meter provider; on failure handleErr and return.
SetupMeterProvider ==
  /\ pc = "meterProvider"
  /\ LET r == newMeterProvider(res) IN
       IF r.err # Nil
         THEN /\ handleErr(r.err)
              /\ pc' = "returned"
         ELSE /\ err' = r.err
              /\ pc' = "registerMP"
              /\ UNCHANGED <<shutdownFuncs, invoked>>
  /\ UNCHANGED <<serviceName, serviceVersion, res, exporter, otelPropagator,
                 otelTracerProvider, otelMeterProvider, logged, mergeResult,
                 exporterResult, callerVars, mainVars, handlerVars>>

\* Variant of line 70 that registers nothing.
RegisterMeterProviderSkipped ==
  /\ pc = "registerMP"
  /\ pc' = "installMP"
  /\ UNCHANGED <<serviceName, serviceVersion, shutdownFuncs, err, res,
                 exporter, otelPropagator, otelTracerProvider,
                 otelMeterProvider, invoked, logged, mergeResult,
                 exporterResult, callerVars, mainVars, handlerVars>>

\* Line 70: register the meter provider's Shutdown.
RegisterMeterProvider ==
  /\ pc = "registerMP"
  /\ shutdownFuncs' = Append(shutdownFuncs, MP)
  /\ pc' = "installMP"
  /\ UNCHANGED <<serviceName, serviceVersion, err, res, exporter,
                 otelPropagator, otelTracerProvider, otelMeterProvider,
                 invoked, logged, mergeResult, exporterResult, callerVars,
                 mainVars, handlerVars>>

\* Lines 71-73: install the meter provider process-wide and return.
InstallMeterProvider ==
  /\ pc = "installMP"
  /\ otelMeterProvider' = "installed"
  /\ pc' = "returned"
  /\ UNCHANGED <<serviceName, serviceVersion, shutdownFuncs, err, res,
                 exporter, otelPropagator, otelTracerProvider, invoked,
                 logged, mergeResult, exporterResult, callerVars, mainVars,
                 handlerVars>>

Setup ==
  \/ SetupResource
  \/ SetupPropagator
  \/ SetupExporter
  \/ SetupTraceProvider
  \/ RegisterTracerProvider
  \/ InstallTracerProvider
  \/ SetupMeterProvider
  \/ RegisterMeterProvider
  \/ InstallMeterProvider

\* ------------------------------------------- calls of the shutdown closure
\* A panic anywhere ends the process: nothing runs after it.
ProcessAlive == pc # "panicked" /\ \A c \in Callers : pcS[c] # "panicked"

\* What caller c's read of shutdownFuncs at the head of the range loop can
\* observe.  The slice is not guarded by any lock: while another caller is at
\* the clearing assignment the read races with that write and may see the old
\* slice, the nil slice, or a torn header (nil pointer, old length), on which
\* the first element access faults.
Observations(c) ==
  IF \E d \in Callers \ {c} : pcS[d] = "clear"
    THEN {"value", "nil", "torn"}
    ELSE {"value"}

\* Lines 28-30: a call begins with ctx (expired or not); var err error; the
\* range expression shutdownFuncs is evaluated once.
ShutdownBegin(c) ==
  /\ ProcessAlive
  /\ pc = "returned"
  /\ pcS[c] = "idle"
  /\ calls[c] < MaxCalls
  /\ \E expired \in BOOLEAN, obs \in Observations(c) :
       LET seen == IF obs = "value" THEN shutdownFuncs ELSE <<>> IN
       /\ expiredS' = [expiredS EXCEPT ![c] = expired]
       /\ snapshot' = [snapshot EXCEPT ![c] = seen]
       /\ pcS' = [pcS EXCEPT ![c] = IF obs = "torn" THEN "panicked"
                                    ELSE IF seen = <<>> THEN "clear"
                                    ELSE "loop"]
  /\ calls' = [calls EXCEPT ![c] = @ + 1]
  /\ idx' = [idx EXCEPT ![c] = 1]
  /\ errS' = [errS EXCEPT ![c] = Nil]
  /\ attempted' = [attempted EXCEPT ![c] = <<>>]
  /\ UNCHANGED <<setupVars, invoked, ret, mainVars, handlerVars>>

\* Variant of the loop body that leaves the loop at the first failing cleanup.
ShutdownIterShortCircuit(c) ==
  /\ ProcessAlive
  /\ pcS[c] = "loop"
  /\ LET fn == snapshot[c][idx[c]] IN
     \E result \in CleanupOutcomes(fn, expiredS[c]) :
       /\ invoked' = [invoked EXCEPT ![fn] = @ + 1]
       /\ errS' = [errS EXCEPT ![c] = Join(<<errS[c], result>>)]
       /\ attempted' = [attempted EXCEPT
                          ![c] = Append(@, [fn |-> fn, result |-> result])]
       /\ pcS' = [pcS EXCEPT ![c] =
                    IF idx[c] < Len(snapshot[c]) /\ result = Nil THEN "loop"
                    ELSE "clear"]
  /\ idx' = [idx EXCEPT ![c] = @ + 1]
  /\ UNCHANGED <<setupVars, snapshot, ret, expiredS, calls, mainVars,
                 handlerVars>>

\* Variant of the loop that walks the slice from its last element to its first.
ShutdownIterReversed(c) ==
  /\ ProcessAlive
  /\ pcS[c] = "loop"
  /\ LET fn == snapshot[c][Len(snapshot[c]) + 1 - idx[c]] IN
     \E result \in CleanupOutcomes(fn, expiredS[c]) :
       /\ invoked' = [invoked EXCEPT ![fn] = @ + 1]
       /\ errS' = [errS EXCEPT ![c] = Join(<<errS[c], result>>)]
       /\ attempted' = [attempted EXCEPT
                          ![c] = Append(@, [fn |-> fn, result |-> result])]
  /\ idx' = [idx EXCEPT ![c] = @ + 1]
  /\ pcS' = [pcS EXCEPT ![c] = IF idx[c] < Len(snapshot[c]) THEN "loop"
                               ELSE "clear"]
  /\ UNCHANGED <<setupVars, snapshot, ret, expiredS, calls, mainVars,
                 handlerVars>>

\* Lines 30-32: one iteration: err = errors.Join(err, fn(ctx)).
ShutdownIter(c) ==
  /\ ProcessAlive
  /\ pcS[c] = "loop"
  /\ LET fn == snapshot[c][idx[c]] IN
     \E result \in CleanupOutcomes(fn, expiredS[c]) :
       /\ invoked' = [invoked EXCEPT ![fn] = @ + 1]
       /\ errS' = [errS EXCEPT ![c] = Join(<<errS[c], result>>)]
       /\ attempted' = [attempted EXCEPT
                          ![c] = Append(@, [fn |-> fn, result |-> result])]
  /\ idx' = [idx EXCEPT ![c] = @ + 1]
  /\ pcS' = [pcS EXCEPT ![c] = IF idx[c] < Len(snapshot[c]) THEN "loop"
                               ELSE "clear"]
  /\ UNCHANGED <<setupVars, snapshot, ret, expiredS, calls, mainVars,
                 handlerVars>>

\* Variant of line 33 that leaves the registry as it is.
ShutdownClearKeeps(c) ==
  /\ ProcessAlive
  /\ pcS[c] = "clear"
  /\ pcS' = [pcS EXCEPT ![c] = "return"]
  /\ UNCHANGED <<setupVars, invoked, snapshot, idx, errS, ret, expiredS,
                 attempted, calls, mainVars, handlerVars>>

\* Line 33: shutdownFuncs = nil.
ShutdownClear(c) ==
  /\ ProcessAlive
  /\ pcS[c] = "clear"
  /\ shutdownFuncs' = <<>>
  /\ pcS' = [pcS EXCEPT ![c] = "return"]
  /\ UNCHANGED <<serviceName, serviceVersion, pc, err, res, exporter,
                 otelPropagator, otelTracerProvider, otelMeterProvider,
                 logged, mergeResult, exporterResult, invoked, snapshot, idx,
                 errS, ret, expiredS, attempted, calls, mainVars, handlerVars>>

\* Variant of line 34 that also reports the context's error when the
\* deadline of the call has passed.
ShutdownReturnCtxErr(c) ==
  /\ ProcessAlive
  /\ pcS[c] = "return"
  /\ ret' = [ret EXCEPT ![c] =
               Append(@, Join(<<errS[c],
                                IF expiredS[c]
                                  THEN Leaf("context deadline exceeded")
                                  ELSE Nil>>))]
  /\ pcS' = [pcS EXCEPT ![c] = "idle"]
  /\ UNCHANGED <<setupVars, invoked, snapshot, idx, errS, expiredS, attempted,
                 calls, mainVars, handlerVars>>

\* Variant of line 34 that returns nil whatever the cleanups reported.
ShutdownReturnNil(c) ==
  /\ ProcessAlive
  /\ pcS[c] = "return"
  /\ ret' = [ret EXCEPT ![c] = Append(@, Nil)]
  /\ pcS' = [pcS EXCEPT ![c] = "idle"]
  /\ UNCHANGED <<setupVars, invoked, snapshot, idx, errS, expiredS, attempted,
                 calls, mainVars, handlerVars>>

\* Line 34: return err.
ShutdownReturn(c) ==
  /\ ProcessAlive
  /\ pcS[c] = "return"
  /\ ret' = [ret EXCEPT ![c] = Append(@, errS[c])]
  /\ pcS' = [pcS EXCEPT ![c] = "idle"]
  /\ UNCHANGED <<setupVars, invoked, snapshot, idx, errS, expiredS, attempted,
                 calls, mainVars, handlerVars>>

Shutdown(c) ==
  \/ ShutdownBegin(c)
  \/ ShutdownIter(c)
  \/ ShutdownClear(c)
  \/ ShutdownReturn(c)

\* ------------------------------------------------- the service entrypoint
\* The entrypoint (Run) is not among the sources; it is modelled from the
\* design: it calls the bootstrap with the binary's fixed identity, exits
\* non-zero when that fails, binds the listener, serves, and on every way out
\* of serving runs the returned closure once before the process exits.
\* setupOTelSDK and the closure are the ones above.

\* How often the closure has been run: by handleErr inside setupOTelSDK, and
\* by its callers.
ShutdownRuns ==
  (IF pc = "returned" /\ err # Nil THEN 1 ELSE 0)
    + calls["c1"] + calls["c2"]

\* Initialize reported an error: log it and exit non-zero.
MainInitFailed ==
  /\ mainPc = "init"
  /\ pc = "returned" /\ err # Nil
  /\ mainPc' = "exited"
  /\ exitCode' = 1
  /\ UNCHANGED <<setupVars, invoked, callerVars, handlerVars>>

\* Initialize panicked (newExporter): nothing in the entrypoint recovers, and
\* no closure was handed back; the process dies with the runtime's status 2.
MainInitPanicked ==
  /\ mainPc = "init"
  /\ pc = "panicked"
  /\ mainPc' = "exited"
  /\ exitCode' = 2
  /\ UNCHANGED <<setupVars, invoked, callerVars, handlerVars>>

\* Initialize succeeded: register the route and bind the listener to :8080.
\* A bind failure is a startup failure: fatal, after the closure has run.
MainListen ==
  /\ mainPc = "init"
  /\ pc = "returned" /\ err = Nil
  /\ \E bound \in BOOLEAN :
       IF bound THEN mainPc' = "serving" /\ UNCHANGED exitCode
                ELSE mainPc' = "stopping" /\ exitCode' = 1
  /\ UNCHANGED <<setupVars, invoked, callerVars, handlerVars>>

\* A termination signal ends serving: clean shutdown, status 0.
MainSignal ==
  /\ mainPc = "serving"
  /\ mainPc' = "stopping"
  /\ exitCode' = 0
  /\ UNCHANGED <<setupVars, invoked, callerVars, handlerVars>>

\* An unhandled panic while serving: the closure still runs on the way out.
MainServePanic ==
  /\ mainPc = "serving"
  /\ mainPc' = "stopping"
  /\ exitCode' = 2
  /\ UNCHANGED <<setupVars, invoked, callerVars, handlerVars>>

\* On the way out the entrypoint runs the closure, once, with its deadline.
MainShutdown ==
  /\ mainPc = "stopping"
  /\ calls["c1"] = 0 \/ pcS["c1"] # "idle"
  /\ Shutdown("c1")

\* The closure has returned: the process exits.
MainExit ==
  /\ mainPc = "stopping"
  /\ pcS["c1"] = "idle" /\ Len(ret["c1"]) = 1
  /\ mainPc' = "exited"
  /\ UNCHANGED <<setupVars, invoked, callerVars, exitCode, handlerVars>>

\* ------------------------------------------------- the dice-roll handler
\* The handler and the route table are not among the sources either; they
\* are modelled from the design: one route, GET /rolldice; each request is
\* served by its own task, which starts a span, rolls, increments the
\* counter metric tagged with the rolled value, writes the value in decimal
\* as the body of a 200 response, and ends the span.
DiceRoute == "/rolldice"
Methods == {"GET", "POST"}
Paths == {DiceRoute, "/"}

\* The status the route table answers with: 200 stands for "handled by the
\* dice-roll handler".
Route(method, path) ==
  IF path # DiceRoute THEN 404
  ELSE IF method # "GET" THEN 405
  ELSE 200

\* One decimal digit as text.
Digit(d) ==
  CASE d = 0 -> "0" [] d = 1 -> "1" [] d = 2 -> "2" [] d = 3 -> "3"
    [] d = 4 -> "4" [] d = 5 -> "5" [] d = 6 -> "6" [] d = 7 -> "7"
    [] d = 8 -> "8" [] d = 9 -> "9"

\* The decimal representation of a natural number.
RECURSIVE Itoa(_)
Itoa(n) ==
  IF n < 10 THEN Digit(n) ELSE Itoa(n \div 10) \o Digit(n % 10)

\* Variant of the roll that forgets to shift the generator's 0-based result.
RandomRollsZeroBased == {k : k \in 0..(DiceSides - 1)}

\* The values the roll can take: 1 plus a uniform draw from 0..5.
RandomRolls == {1 + k : k \in 0..(DiceSides - 1)}

\* A request arrives while the service serves; the route table answers
\* unknown paths and other methods itself, and hands GET /rolldice to the
\* handler, which starts its span.
HandleArrive(r) ==
  /\ ProcessAlive
  /\ mainPc = "serving"
  /\ req[r].pc = "none"
  /\ \E method \in Methods, path \in Paths :
       LET st == Route(method, path) IN
       req' = [req EXCEPT ![r] =
                 IF st = 200
                   THEN [@ EXCEPT !.pc = "roll", !.method = method,
                                  !.path = path]
                   ELSE [@ EXCEPT !.pc = "done", !.method = method,
                                  !.path = path, !.status = st]]
  /\ UNCHANGED <<setupVars, invoked, callerVars, mainVars, rollCounter>>

\* The handler of request r rolls v.
RollTo(r, v) ==
  /\ ProcessAlive
  /\ mainPc = "serving"
  /\ req[r].pc = "roll"
  /\ req' = [req EXCEPT ![r] = [@ EXCEPT !.pc = "count", !.roll = v]]
  /\ UNCHANGED <<setupVars, invoked, callerVars, mainVars, rollCounter>>

\* The roll: any of the values the generator can give.
HandleRoll(r) == \E v \in RandomRolls : RollTo(r, v)

\* Variant of the increment that adds the rolled value instead of one.
HandleCountAddsRoll(r) ==
  /\ ProcessAlive
  /\ mainPc = "serving"
  /\ req[r].pc = "count"
  /\ rollCounter' = [rollCounter EXCEPT ![req[r].roll] = @ + req[r].roll]
  /\ req' = [req EXCEPT ![r] = [@ EXCEPT !.pc = "write"]]
  /\ UNCHANGED <<setupVars, invoked, callerVars, mainVars>>

\* The counter metric is incremented by one, tagged with the rolled value;
\* the instrument's Add is atomic.
HandleCount(r) ==
  /\ ProcessAlive
  /\ mainPc = "serving"
  /\ req[r].pc = "count"
  /\ rollCounter' = [rollCounter EXCEPT ![req[r].roll] = @ + 1]
  /\ req' = [req EXCEPT ![r] = [@ EXCEPT !.pc = "write"]]
  /\ UNCHANGED <<setupVars, invoked, callerVars, mainVars>>

\* The rolled value is written in decimal as the body of a 200 response.
HandleWrite(r) ==
  /\ ProcessAlive
  /\ mainPc = "serving"
  /\ req[r].pc = "write"
  /\ req' = [req EXCEPT ![r] = [@ EXCEPT !.pc = "end", !.status = 200,
                                        !.body = Itoa(req[r].roll)]]
  /\ UNCHANGED <<setupVars, invoked, callerVars, mainVars, rollCounter>>

\* The handler's span ends and is handed to the span processor.
HandleEndSpan(r) ==
  /\ ProcessAlive
  /\ mainPc = "serving"
  /\ req[r].pc = "end"
  /\ req' = [req EXCEPT ![r] = [@ EXCEPT !.pc = "done", !.spans = @ + 1]]
  /\ UNCHANGED <<setupVars, invoked, callerVars, mainVars, rollCounter>>

Handle(r) ==
  \/ HandleArrive(r)
  \/ HandleRoll(r)
  \/ HandleCount(r)
  \/ HandleWrite(r)
  \/ HandleEndSpan(r)

\* ---------------------------------------------------------- specifications
\* One caller holds the returned closure and calls it again and again.
Next == Setup \/ Shutdown("c1")

Spec == Init /\ [][Next]_vars

\* Two callers hold the closure and call it concurrently.
NextConc == Setup \/ \E c \in Callers : Shutdown(c)

SpecConc == Init /\ [][NextConc]_vars

\* The whole process: the entrypoint drives the bootstrap and the closure.
InitMain == Init /\ serviceName = "rolldice" /\ serviceVersion = "1.0"

NextMain ==
  \/ Setup
  \/ MainInitFailed
  \/ MainInitPanicked
  \/ MainListen
  \/ MainSignal
  \/ MainServePanic
  \/ MainShutdown
  \/ MainExit
  \/ \E r \in Requests : Handle(r)

SpecMain == InitMain /\ [][NextMain]_vars

\* ------------------------------------------------------------- properties
\* Caller c's first call has run its loop to the end.
FirstCallDone(c) ==
  calls[c] >= 2 \/ (calls[c] = 1 /\ pcS[c] \in {"clear", "return", "idle"})

\* The results of the cleanups that failed in a call, as wrapped leaves.
FailedLeaves(log) ==
  LeavesOfAll([i \in 1..Len(log) |-> log[i].result])

\* C1: after a successful setupOTelSDK, over any number of sequential calls of
\* the returned closure every registered cleanup is invoked exactly once in
\* total, during the first call; every later call invokes no cleanup and
\* returns nil, also when a cleanup failed in the first call.
C1_CleanupsOnceThenNoOp ==
  (pc = "returned" /\ err = Nil) =>
    /\ \A f \in Cleanups : invoked[f] <= 1
    /\ calls["c1"] = 0 => \A f \in Cleanups : invoked[f] = 0
    /\ FirstCallDone("c1") => \A f \in Cleanups : invoked[f] = 1
    /\ calls["c1"] >= 2 => attempted["c1"] = <<>> /\ errS["c1"] = Nil
    /\ \A k \in 2..Len(ret["c1"]) : ret["c1"][k] = Nil

\* Three calls have returned, the first with an error, and each cleanup ran
\* once.
C1_Witness ==
  /\ pc = "returned" /\ err = Nil
  /\ Len(ret["c1"]) = 3
  /\ ret["c1"][1] # Nil
  /\ ret["c1"][2] = Nil /\ ret["c1"][3] = Nil
  /\ \A f \in Cleanups : invoked[f] = 1

\* C2: a call of the closure attempts every cleanup of the registry even when
\* an earlier one failed, and what it returns is nil exactly when every
\* attempted cleanup returned nil, otherwise the join of exactly the errors of
\* the cleanups that failed.
C2_AllAttemptedErrorsJoined ==
  LET c == "c1" IN
  /\ Len(attempted[c]) <= Len(snapshot[c])
  /\ \A i \in 1..Len(attempted[c]) : attempted[c][i].fn = snapshot[c][i]
  /\ (errS[c] = Nil) <=>
       (\A i \in 1..Len(attempted[c]) : attempted[c][i].result = Nil)
  /\ Leaves(errS[c]) = FailedLeaves(attempted[c])
  /\ pcS[c] \in {"clear", "return"} => Len(attempted[c]) = Len(snapshot[c])
  /\ (pcS[c] = "idle" /\ calls[c] >= 1) =>
       /\ Len(attempted[c]) = Len(snapshot[c])
       /\ ret[c][Len(ret[c])] = errS[c]

\* A call has returned in which the first cleanup failed and the second was
\* still attempted, and failed too.
C2_Witness ==
  LET c == "c1" IN
  /\ pcS[c] = "idle" /\ calls[c] = 1
  /\ Len(attempted[c]) = 2
  /\ attempted[c][1].fn = TP /\ attempted[c][1].result # Nil
  /\ attempted[c][2].fn = MP /\ attempted[c][2].result # Nil
  /\ Len(Leaves(ret[c][1])) = 2

\* C3: each registered cleanup is invoked at most once also when two calls of
\* the closure run concurrently.
C3_AtMostOnceConcurrently ==
  \A f \in Cleanups : invoked[f] <= 1

\* The process-wide telemetry state and the bootstrap's own state are as
\* before setupOTelSDK was called.
NothingInstalled ==
  /\ otelPropagator = "none"
  /\ otelTracerProvider = "none"
  /\ otelMeterProvider = "none"

\* C6: when the resource merge fails, setupOTelSDK returns a non-nil error and
\* the process-wide state is unchanged: no propagator, tracer provider or
\* meter provider installed, no exporter built, no cleanup registered or
\* invoked.
C6_ResourceFailureLeavesNothing ==
  (mergeResult # Nil) =>
    /\ pc = "returned"
    /\ err # Nil
    /\ Leaves(err) = Leaves(mergeResult)
    /\ NothingInstalled
    /\ exporter = "none"
    /\ exporterResult = Nil
    /\ shutdownFuncs = <<>>
    /\ \A f \in Cleanups : invoked[f] = 0
    /\ \A c \in Callers : attempted[c] = <<>>

\* The merge failed, setupOTelSDK returned, and the closure was then called.
C6_Witness ==
  /\ mergeResult # Nil
  /\ pc = "returned"
  /\ Len(ret["c1"]) >= 1

\* C7: when exporter construction fails, setupOTelSDK never returns: the
\* failure is logged and the process ends there, no cleanup and no call of the
\* closure ever runs, the propagator stays installed, and no trace or meter
\* provider is built or installed.
C7_ExporterFailureIsFatal ==
  (exporterResult # Nil) =>
    /\ pc = "panicked"
    /\ logged = <<"Error sending traces">>
    /\ otelPropagator = "installed"
    /\ otelTracerProvider = "none"
    /\ otelMeterProvider = "none"
    /\ exporter = "none"
    /\ shutdownFuncs = <<>>
    /\ \A f \in Cleanups : invoked[f] = 0
    /\ \A c \in Callers : calls[c] = 0
    /\ ~ ENABLED Next

\* Exporter construction has failed.
C7_Witness ==
  /\ exporterResult # Nil
  /\ mergeResult = Nil
  /\ pc = "panicked"

\* C8: when setupOTelSDK returns without error, propagator, trace provider and
\* meter provider are installed process-wide and the registry holds exactly
\* the trace provider's cleanup followed by the meter provider's.
C8_SuccessInstallsAndRegisters ==
  (pc = "returned" /\ err = Nil) =>
    /\ otelPropagator = "installed"
    /\ otelTracerProvider = "installed"
    /\ otelMeterProvider = "installed"
    /\ exporter = "built"
    /\ (\A c \in Callers : calls[c] = 0) => shutdownFuncs = <<TP, MP>>

\* setupOTelSDK has just returned without error.
C8_Witness ==
  /\ pc = "returned" /\ err = Nil
  /\ \A c \in Callers : calls[c] = 0
  /\ Len(shutdownFuncs) = 2

\* C9 as stated: a call made with an already-expired deadline that has
\* returned has returned a non-nil error.
C9_ExpiredCallReturnsError ==
  LET c == "c1" IN
  (pcS[c] = "idle" /\ calls[c] >= 1 /\ expiredS[c]) =>
     ret[c][Len(ret[c])] # Nil

\* C9 as amended: a call made with an already-expired deadline never waits:
\* it invokes each cleanup of the registry once (at most two invocations) and
\* goes on to return; what it returns is non-nil exactly when one of those
\* cleanups reported an error, so with an empty registry it returns nil.
C9_ExpiredCallBoundedAndJoins ==
  LET c == "c1" IN
  (calls[c] >= 1 /\ expiredS[c]) =>
    /\ Len(snapshot[c]) <= 2
    /\ Len(attempted[c]) = idx[c] - 1
    /\ idx[c] <= Len(snapshot[c]) + 1
    /\ pcS[c] \in {"loop", "clear", "return"} => ENABLED Shutdown(c)
    /\ pcS[c] = "idle" =>
         /\ Len(attempted[c]) = Len(snapshot[c])
         /\ (ret[c][Len(ret[c])] # Nil) <=>
              (\E i \in 1..Len(attempted[c]) : attempted[c][i].result # Nil)
         /\ snapshot[c] = <<>> => ret[c][Len(ret[c])] = Nil

\* Two calls with an expired deadline have returned: the first reported the
\* cleanups' errors, the second found the registry empty and returned nil.
C9_Witness ==
  LET c == "c1" IN
  /\ pcS[c] = "idle" /\ calls[c] = 2 /\ expiredS[c]
  /\ Leaves(ret[c][1]) =
       <<"context deadline exceeded", "context deadline exceeded">>
  /\ ret[c][2] = Nil

\* C10: on every exit path of the entrypoint (termination signal, startup
\* failure, panic while serving, and so also the panic of exporter
\* construction inside setupOTelSDK) the closure has been run before the
\* process exits, and the entrypoint's way out has run it at most once.
C10_ShutdownOnEveryExitPath ==
  (mainPc = "exited") =>
    /\ ShutdownRuns = 1
    /\ \A c \in Callers : pcS[c] = "idle"

\* C13: the closure invokes the cleanups in registration order: the trace
\* provider's shutdown is invoked and has returned before the meter
\* provider's is invoked, and the registry is cleared only after the last
\* cleanup has returned.
C13_RegistrationOrderThenClear ==
  LET c == "c1" IN
  (pc = "returned" /\ err = Nil) =>
    /\ \A i \in 1..Len(attempted[c]) : attempted[c][i].fn = <<TP, MP>>[i]
    /\ invoked[MP] <= invoked[TP]
    /\ pcS[c] = "loop" => shutdownFuncs = <<TP, MP>>
    /\ shutdownFuncs = <<>> => \A f \in Cleanups : invoked[f] = 1

\* The trace provider's shutdown has returned, the meter provider's has not
\* been invoked yet, and the registry still holds both.
C13_Witness ==
  LET c == "c1" IN
  /\ pc = "returned" /\ err = Nil
  /\ pcS[c] = "loop" /\ idx[c] = 2
  /\ Len(attempted[c]) = 1 /\ attempted[c][1].fn = TP
  /\ invoked[TP] = 1 /\ invoked[MP] = 0
  /\ Len(shutdownFuncs) = 2

\* C14: whenever setupOTelSDK returns a non-nil error the registry is empty at
\* the return, so the closure returned with the error is a no-op: any number
\* of calls invokes no cleanup and returns nil.
C14_ClosureAfterErrorIsNoOp ==
  LET c == "c1" IN
  (pc = "returned" /\ err # Nil) =>
    /\ shutdownFuncs = <<>>
    /\ snapshot[c] = <<>>
    /\ attempted[c] = <<>>
    /\ \A f \in Cleanups : invoked[f] = 0
    /\ \A k \in 1..Len(ret[c]) : ret[c][k] = Nil

\* setupOTelSDK returned an error and the closure was then called three
\* times, once at least with an expired deadline.
C14_Witness ==
  LET c == "c1" IN
  /\ pc = "returned" /\ err # Nil
  /\ Len(ret[c]) = 3
  /\ expiredS[c]

\* C15: a provider's cleanup is registered before the provider is installed
\* process-wide, so in every state each installed provider is still in the
\* registry or has had its shutdown invoked.
C15_InstalledImpliesRegisteredOrShutDown ==
  LET InRegistry(f) == \E i \in 1..Len(shutdownFuncs) : shutdownFuncs[i] = f IN
  /\ otelTracerProvider = "installed" => InRegistry(TP) \/ invoked[TP] >= 1
  /\ otelMeterProvider = "installed" => InRegistry(MP) \/ invoked[MP] >= 1
  /\ pc = "installTP" => InRegistry(TP) /\ otelTracerProvider = "none"
  /\ pc = "installMP" => InRegistry(MP) /\ otelMeterProvider = "none"

\* Both providers are installed, the registry has been cleared, and both have
\* been shut down.
C15_Witness ==
  /\ otelTracerProvider = "installed" /\ otelMeterProvider = "installed"
  /\ shutdownFuncs = <<>>
  /\ invoked[TP] = 1 /\ invoked[MP] = 1

\* C16: trace provider and meter provider construction never report an
\* error, so (exporter construction having succeeded or never been reached)
\* setupOTelSDK returns a non-nil error exactly when the resource merge
\* failed, and that error carries the merge failure alone.
C16_ErrorIffMergeFailed ==
  /\ pc \in {"registerTP", "installTP", "meterProvider", "registerMP",
             "installMP"} => err = Nil
  /\ pc = "returned" =>
       /\ (err # Nil) <=> (mergeResult # Nil)
       /\ err = Join(<<mergeResult>>)
       /\ Leaves(err) = Leaves(mergeResult)
       /\ err = Nil => exporter = "built" /\ exporterResult = Nil

\* setupOTelSDK has returned the merge failure, and nothing else.
C16_Witness ==
  /\ pc = "returned"
  /\ mergeResult # Nil
  /\ Leaves(err) = <<"resource merge failed">>
  /\ \A f \in Cleanups : invoked[f] = 0

\* Request r was handed to the dice-roll handler.
Dice(r) ==
  req[r].pc # "none" /\ req[r].method = "GET" /\ req[r].path = DiceRoute

\* C11: every GET request to the dice route is answered 200 with a body that
\* is the decimal representation of one integer of 1..6; no request yields a
\* value outside 1..6, each of the six values can be rolled, and a handler
\* that has started is never blocked while the service serves.
C11_DiceRouteAnswersOneToSix ==
  \A r \in Requests :
    /\ (Dice(r) /\ req[r].pc \in {"count", "write", "end", "done"}) =>
         req[r].roll \in 1..6
    /\ (Dice(r) /\ req[r].pc \in {"end", "done"}) =>
         /\ req[r].status = 200
         /\ req[r].body \in {"1", "2", "3", "4", "5", "6"}
         /\ req[r].body = Itoa(req[r].roll)
    /\ (req[r].pc = "roll" /\ mainPc = "serving") =>
         \A v \in 1..6 : ENABLED (HandleRoll(r) /\ req'[r].roll = v)
    /\ (Dice(r) /\ req[r].pc # "done" /\ mainPc = "serving") =>
         ENABLED Handle(r)

\* A GET /rolldice request has been answered 200 with the body "6".
C11_Witness ==
  \E r \in Requests :
    /\ Dice(r) /\ req[r].pc = "done"
    /\ req[r].status = 200 /\ req[r].body = "6" /\ req[r].roll = 6

\* The sum of the counter metric over the values 1..n.
RECURSIVE CounterSum(_, _)
CounterSum(counter, n) ==
  IF n = 0 THEN 0 ELSE counter[n] + CounterSum(counter, n - 1)

\* The dice requests whose handler has passed the counter increment.
Counted == {r \in Requests : Dice(r) /\ req[r].pc \in {"write", "end", "done"}}

\* C12: with any number of requests handled concurrently, in every
\* interleaving each request has its own valid roll and exactly one span,
\* and the counter metric counts every handler that has incremented it once:
\* when all handlers have finished its aggregated count is the number of
\* requests served.
C12_CounterEqualsRequestsServed ==
  /\ CounterSum(rollCounter, DiceSides) = Cardinality(Counted)
  /\ \A v \in Faces :
       rollCounter[v] = Cardinality({r \in Counted : req[r].roll = v})
  /\ \A r \in Requests :
       /\ req[r].spans = IF Dice(r) /\ req[r].pc = "done" THEN 1 ELSE 0
       /\ r \in Counted => req[r].roll \in Faces
  /\ (\A r \in Requests : req[r].pc = "done") =>
       CounterSum(rollCounter, DiceSides) =
         Cardinality({r \in Requests : Dice(r)})

\* Two requests were served, both rolled the same value, and the counter for
\* that value stands at two.
C12_Witness ==
  /\ \A r \in Requests : req[r].pc = "done"
  /\ Cardinality({r \in Requests : Dice(r)}) >= 2
  /\ \E v \in Faces : rollCounter[v] = 2
  /\ \A r \in Requests : Dice(r) => req[r].spans = 1

====
